---- MODULE Spec2Model ----
(***************************************************************************)
(* State machine of server.js: the authoritative world state (players,    *)
(* coins), the WebSocket handlers that mutate it (connection, message,    *)
(* close) and the broadcaster (event-triggered and periodic).              *)
(*                                                                         *)
(* Node.js runs every handler to completion on one thread, so each        *)
(* handler, with every call it makes, is one atomic action.                *)
(*                                                                         *)
(* Numbers are integers.  A magnitude of Huge or more stands for the       *)
(* doubles +Infinity / -Infinity, which JSON.parse produces for an         *)
(* overflowing literal such as 1e999 (NaN cannot come out of JSON.parse).  *)
(* Rounding of non-integer doubles and the timestamp t of a state frame    *)
(* are outside the model.                                                  *)
(***************************************************************************)
EXTENDS Integers, Sequences, FiniteSets, TLC

\* ---------------------------------------------------------------- bounds
\* Number of connections the server ever accepts in a behaviour.
MaxConns == 2
\* Magnitudes >= Huge model an infinite double.
Huge == 20000

\* ------------------------------------------------------- program constants
WORLD_W == 1600
WORLD_H == 900
GROUND_Y == WORLD_H - 120
NumCoins == 20
Reach == 20
NameMax == 32
MinRadius == 30
MaxRadius == 400
DefaultRadius == 120

Conns == 1..MaxConns
CoinIdx == 0..(NumCoins - 1)

Min(a, b) == IF a < b THEN a ELSE b
Max(a, b) == IF a > b THEN a ELSE b

\* ------------------------------------------------------------- JS values
\* A JavaScript value as message handling sees it: its typeof tag, its
\* numeric value and its string value.
Undefined == [t |-> "undefined", n |-> 0, s |-> ""]
Null == [t |-> "null", n |-> 0, s |-> ""]
Num(k) == [t |-> "number", n |-> k, s |-> ""]
Str(cs) == [t |-> "string", n |-> 0, s |-> cs]
\* A parsed JSON object.  n = 1: its own "toString" property is not a
\* function (as in {"toString": 1}), so converting it to a string throws.
Object(k) == [t |-> "object", n |-> k, s |-> ""]

\* A value as written in a JSON text.  "overflow" is a numeric literal too
\* large for a double (n is its sign); "absent" is a key that is not there.
Absent == [t |-> "absent", n |-> 0, s |-> ""]
Overflow(sign) == [t |-> "overflow", n |-> sign, s |-> ""]

IsFinite(k) == -Huge < k /\ k < Huge

\* JSON.parse on one value of the text.
ParseVal(w) ==
  IF w.t = "overflow" THEN Num(w.n * Huge)
  ELSE IF w.t = "absent" THEN Undefined
  ELSE w

\* JSON.stringify on one value: a non-finite number is written as null and
\* an undefined property is left out.
StringifyVal(v) ==
  IF v.t = "number" /\ ~IsFinite(v.n) THEN Null
  ELSE IF v.t = "undefined" THEN Absent
  ELSE v

\* JSON.stringify on a number held in the world state.
StringifyNum(k) == StringifyVal(Num(k))

\* !v for the values above.
Truthy(v) ==
  \/ v.t = "string" /\ v.s # ""
  \/ v.t = "number" /\ v.n # 0
  \/ v.t = "object"

\* String(v) throws a TypeError.
StringThrows(v) == v.t = "object" /\ v.n = 1

Fields == {"type", "name", "x", "y", "bubbleRadius", "coinId", "to", "data", "text"}

\* An inbound frame: whether it is JSON at all, what its top-level value is
\* ("object", "null" or "scalar") and, for an object, its properties.
NoFields == [k \in Fields |-> Absent]
BadFrame == [syntax |-> "bad", top |-> "scalar", f |-> NoFields]
NullFrame == [syntax |-> "ok", top |-> "null", f |-> NoFields]
ScalarFrame == [syntax |-> "ok", top |-> "scalar", f |-> NoFields]
Obj(f) == [syntax |-> "ok", top |-> "object", f |-> f]

\* JSON.parse(raw) inside try/catch: thrown is TRUE when it throws.
JSONparse(raw) ==
  [thrown |-> raw.syntax = "bad",
   top |-> raw.top,
   f |-> [k \in Fields |-> IF raw.top = "object" THEN ParseVal(raw.f[k]) ELSE Undefined]]

\* The two early returns of the message handler.
Dropped(msg) == msg.thrown \/ msg.top = "null" \/ ~Truthy(msg.f["type"])

\* Variant: msg.type.startsWith(name) instead of ===.
IsTypePrefix(msg, name) ==
  /\ msg.f["type"].t = "string"
  /\ Len(msg.f["type"].s) >= Len(name)
  /\ SubSeq(msg.f["type"].s, 1, Len(name)) = name
IsType(msg, name) == msg.f["type"].t = "string" /\ msg.f["type"].s = name

\* ------------------------------------------------------------------ state
VARIABLES
  nextId,      \* the id counter
  players,     \* the Map, as its entries [id, ref] in insertion order
  player,      \* per connection, the player object its closure holds
  coins,       \* the coin array
  readyState,  \* per connection, ws.readyState ("CONNECTING": not accepted yet)
  sent,        \* the frames the last handler wrote, in order: [to, frame]
  crashed,     \* an exception left a handler uncaught: the process is gone
  collects,    \* history: per coin, how often the collect branch took it
  assigned,    \* history: the counter values and ids given out, in connect order
  inbox,       \* history: per connection, what has been written to its socket
  shown,       \* history: the coins marked taken in the last state frame written
  pending      \* history: an update was applied and broadcastState has not run since

vars == <<nextId, players, player, coins, readyState, sent, crashed, collects, assigned,
          inbox, shown, pending>>

NoPlayer == [id |-> "", name |-> "", x |-> 0, y |-> 0, bubbleRadius |-> 0, ws |-> 0]

\* ------------------------------------------------------------------ coins
\* spawnCoins(): Math.random gives x in 80..1519 and y in 80..739.  The
\* layout checked is one such outcome: with a player at the world centre
\* (800, 450), c0 lies at squared distance 400, c1 at 0 and c2 at 361; the
\* other coins lie on a row that no modelled player position comes near.
CoinPos(i) ==
  IF i = 0 THEN <<812, 466>>
  ELSE IF i = 1 THEN <<800, 450>>
  ELSE IF i = 2 THEN <<819, 450>>
  ELSE <<80 + 70 * i, 700>>

spawnCoins ==
  [i \in CoinIdx |->
     [id |-> "c" \o ToString(i), x |-> CoinPos(i)[1], y |-> CoinPos(i)[2], taken |-> FALSE]]

\* ------------------------------------------------------------ the players Map
MapHas(m, id) == \E i \in 1..Len(m) : m[i].id = id

MapSet(m, id, ref) ==
  IF MapHas(m, id)
  THEN [i \in 1..Len(m) |-> IF m[i].id = id THEN [id |-> id, ref |-> ref] ELSE m[i]]
  ELSE Append(m, [id |-> id, ref |-> ref])

MapDeleteKeep(e, id) == e.id # id
\* Variant: the entry is looked up under a key that is never there.
MapDeleteNothing(m, id) == m
MapDelete(m, id) == SelectSeq(m, LAMBDA e : MapDeleteKeep(e, id))

\* players.get(key): the connection whose player object is stored under key,
\* 0 when there is none.  Keys are strings, so a non-string never matches.
MapGet(m, key) ==
  IF key.t = "string" /\ MapHas(m, key.s)
  THEN (CHOOSE e \in {m[i] : i \in 1..Len(m)} : e.id = key.s).ref
  ELSE 0

\* ---------------------------------------------------------------- sending
IsOpen(rs, ws) == ws \in Conns /\ rs[ws] = "OPEN"

\* send(ws, obj)
send(rs, ws, frame) == IF IsOpen(rs, ws) THEN <<[to |-> ws, frame |-> frame]>> ELSE <<>>

PlayerView(p) ==
  [id |-> p.id, name |-> p.name, x |-> StringifyNum(p.x), y |-> StringifyNum(p.y),
   bubbleRadius |-> StringifyNum(p.bubbleRadius)]

CoinView(c) == [id |-> c.id, x |-> c.x, y |-> c.y, taken |-> c.taken]

StatePayload(m, objs, cs) ==
  [type |-> "state",
   players |-> [i \in 1..Len(m) |-> PlayerView(objs[m[i].ref])],
   coins |-> [i \in CoinIdx |-> CoinView(cs[i])]]

RECURSIVE SendAll(_, _, _, _)
SendAll(m, objs, rs, frame) ==
  IF m = <<>> THEN <<>>
  ELSE send(rs, objs[Head(m).ref].ws, frame) \o SendAll(Tail(m), objs, rs, frame)

\* broadcastState(): one payload, written to every entry whose socket is OPEN.
broadcastState(m, objs, cs, rs) == SendAll(m, objs, rs, StatePayload(m, objs, cs))

\* Variant: the welcome carries the coin list as it was seeded.
WelcomeFrameSeeded(id, cs) ==
  [type |-> "welcome", id |-> id,
   world |-> [w |-> WORLD_W, h |-> WORLD_H, groundY |-> GROUND_Y],
   coins |-> [i \in CoinIdx |-> CoinView(spawnCoins[i])]]
WelcomeFrame(id, cs) ==
  [type |-> "welcome", id |-> id,
   world |-> [w |-> WORLD_W, h |-> WORLD_H, groundY |-> GROUND_Y],
   coins |-> [i \in CoinIdx |-> CoinView(cs[i])]]

SignalFrame(from, data) == [type |-> "signal", from |-> from, data |-> StringifyVal(data)]

\* What a socket has been handed by ws.send so far: how many welcome frames
\* and the type of the first frame.  Receive adds the frames one handler
\* wrote, in the order written.
NoInbox == [welcomes |-> 0, first |-> ""]

Receive(box, frames) ==
  [c \in Conns |->
     LET mine == SelectSeq(frames, LAMBDA m : m.to = c)
     IN IF mine = <<>> THEN box[c]
        ELSE [welcomes |-> box[c].welcomes
                           + Len(SelectSeq(mine, LAMBDA m : m.frame.type = "welcome")),
              first |-> IF box[c].first = "" THEN mine[1].frame.type ELSE box[c].first]]

\* The coins a state frame marks as taken, and those marked in the last state
\* frame among the frames one handler wrote (old when it wrote none).
TakenIn(frame) == {i \in CoinIdx : frame.coins[i].taken}

LastShown(old, frames) ==
  LET states == SelectSeq(frames, LAMBDA m : m.frame.type = "state")
  IN IF states = <<>> THEN old ELSE TakenIn(states[Len(states)].frame)

\* ------------------------------------------------------------------- Init
Init ==
  /\ nextId = 1
  /\ players = <<>>
  /\ player = [c \in Conns |-> NoPlayer]
  /\ coins = spawnCoins
  /\ readyState = [c \in Conns |-> "CONNECTING"]
  /\ sent = <<>>
  /\ crashed = FALSE
  /\ collects = [i \in CoinIdx |-> 0]
  /\ assigned = <<>>
  /\ inbox = [c \in Conns |-> NoInbox]
  /\ shown = {}
  /\ pending = FALSE

\* ------------------------------------------------------------- connection
\* Variant: the id is made from the size of the Map, not from the counter.
NewIdBySize(n) == "p" \o ToString(Len(players) + 1)
NewId(n) == "p" \o ToString(n)

\* Variant: the counter is read but not advanced.
NextIdSame(n) == n
NextIdAfter(n) == n + 1

NewPlayer(id, ws) ==
  [id |-> id, name |-> "Pilot" \o id, x |-> WORLD_W \div 2, y |-> WORLD_H \div 2,
   bubbleRadius |-> DefaultRadius, ws |-> ws]

\* wss.on('connection'): the c-th connection the server accepts.
OnConnection(c) ==
  /\ ~crashed
  /\ readyState[c] = "CONNECTING"
  /\ \A d \in Conns : d < c => readyState[d] # "CONNECTING"
  /\ LET id == NewId(nextId)
         objs == [player EXCEPT ![c] = NewPlayer(id, c)]
         m == MapSet(players, id, c)
         rs == [readyState EXCEPT ![c] = "OPEN"]
     IN /\ nextId' = NextIdAfter(nextId)
        /\ assigned' = Append(assigned, [n |-> nextId, id |-> id])
        /\ player' = objs
        /\ players' = m
        /\ readyState' = rs
        /\ sent' = send(rs, c, WelcomeFrame(id, coins)) \o broadcastState(m, objs, coins, rs)
  /\ inbox' = Receive(inbox, sent')
  /\ shown' = LastShown(shown, sent')
  /\ pending' = FALSE
  /\ UNCHANGED <<coins, crashed, collects>>

\* ---------------------------------------------------------------- message
\* Variant: the name is stored without slice(0, 32).
JoinNoSlice(p, msg) ==
  [p EXCEPT
     !.name = IF msg.f["name"].t = "string" THEN msg.f["name"].s ELSE p.name,
     !.x = IF msg.f["x"].t = "number" THEN msg.f["x"].n ELSE p.x,
     !.y = IF msg.f["y"].t = "number" THEN msg.f["y"].n ELSE p.y]
\* The join branch on the player object.
Join(p, msg) ==
  [p EXCEPT
     !.name = IF msg.f["name"].t = "string"
              THEN SubSeq(msg.f["name"].s, 1, Min(NameMax, Len(msg.f["name"].s)))
              ELSE p.name,
     !.x = IF msg.f["x"].t = "number" THEN msg.f["x"].n ELSE p.x,
     !.y = IF msg.f["y"].t = "number" THEN msg.f["y"].n ELSE p.y]

ClampX(v) == Max(0, Min(WORLD_W, v))
\* Variant: the lower bound is missing.
ClampYNoFloor(v) == Min(WORLD_H, v)
ClampY(v) == Max(0, Min(WORLD_H, v))
\* Variant: the upper bound is missing.
ClampRadiusNoCeiling(v) == Max(MinRadius, v)
ClampRadius(v) == Max(MinRadius, Min(MaxRadius, v))

\* Variant: the branch is left after the first assignment.
UpdateXOnly(p, msg) ==
  [p EXCEPT !.x = IF msg.f["x"].t = "number" THEN ClampX(msg.f["x"].n) ELSE p.x]
\* The update branch on the player object.
Update(p, msg) ==
  [p EXCEPT
     !.x = IF msg.f["x"].t = "number" THEN ClampX(msg.f["x"].n) ELSE p.x,
     !.y = IF msg.f["y"].t = "number" THEN ClampY(msg.f["y"].n) ELSE p.y,
     !.bubbleRadius = IF msg.f["bubbleRadius"].t = "number"
                      THEN ClampRadius(msg.f["bubbleRadius"].n)
                      ELSE p.bubbleRadius]

\* coins.find(c => c.id === coinId): the index of the first match, -1 if none.
FindCoin(cs, coinId) ==
  IF coinId.t = "string" /\ \E i \in CoinIdx : cs[i].id = coinId.s
  THEN CHOOSE i \in CoinIdx :
         /\ cs[i].id = coinId.s
         /\ \A j \in 0..(i - 1) : cs[j].id # coinId.s
  ELSE -1

DistSq(c, p) == (c.x - p.x) * (c.x - p.x) + (c.y - p.y) * (c.y - p.y)

\* Variant: the comparison is <= instead of <.
NearInclusive(c, p) == DistSq(c, p) <= Reach * Reach
\* The proximity test of the collect branch.
Near(c, p) == DistSq(c, p) < Reach * Reach

\* Variant: the taken flag is not tested.
CanCollectTaken(cs, i, p) == i # -1 /\ Near(cs[i], p)
\* The guard of the collect branch: coin found, not taken, player near.
CanCollect(cs, i, p) == i # -1 /\ ~cs[i].taken /\ Near(cs[i], p)

\* The signal branch: the frames it writes.
Signal(m, objs, rs, p, msg) ==
  LET target == MapGet(m, msg.f["to"])
  IN IF target # 0 /\ IsOpen(rs, objs[target].ws)
     THEN send(rs, objs[target].ws, SignalFrame(p.id, msg.f["data"]))
     ELSE <<>>

\* The chat branch: String(msg.text || '') throws on an object that cannot
\* be converted; nothing catches it, so the process dies.
ChatThrows(msg) ==
  StringThrows(IF Truthy(msg.f["text"]) THEN msg.f["text"] ELSE Str(""))

\* Variant: the chat branch keeps the text as the player's name.
OnMessageChatRenames(c, raw) ==
  /\ ~crashed
  /\ readyState[c] \in {"OPEN", "CLOSING"}
  /\ LET msg == JSONparse(raw)
         p == player[c]
     IN IF Dropped(msg)
        THEN /\ sent' = <<>>
             /\ UNCHANGED <<player, coins, crashed, collects, pending>>
        ELSE IF IsType(msg, "join")
        THEN /\ player' = [player EXCEPT ![c] = Join(p, msg)]
             /\ sent' = broadcastState(players, player', coins, readyState)
             /\ pending' = FALSE
             /\ UNCHANGED <<coins, crashed, collects>>
        ELSE IF IsType(msg, "update")
        THEN /\ player' = [player EXCEPT ![c] = Update(p, msg)]
             /\ sent' = <<>>
             /\ pending' = TRUE
             /\ UNCHANGED <<coins, crashed, collects>>
        ELSE IF IsType(msg, "collect")
        THEN LET i == FindCoin(coins, msg.f["coinId"])
             IN IF CanCollect(coins, i, p)
                THEN /\ coins' = [coins EXCEPT ![i].taken = TRUE]
                     /\ collects' = [collects EXCEPT ![i] = @ + 1]
                     /\ sent' = broadcastState(players, player, coins', readyState)
                     /\ pending' = FALSE
                     /\ UNCHANGED <<player, crashed>>
                ELSE /\ sent' = <<>>
                     /\ UNCHANGED <<player, coins, crashed, collects, pending>>
        ELSE IF IsType(msg, "signal")
        THEN /\ sent' = Signal(players, player, readyState, p, msg)
             /\ UNCHANGED <<player, coins, crashed, collects, pending>>
        ELSE IF IsType(msg, "chat")
        THEN IF ChatThrows(msg)
             THEN /\ crashed' = TRUE
                  /\ sent' = <<>>
                  /\ UNCHANGED <<player, coins, collects, pending>>
             ELSE /\ player' = [player EXCEPT ![c].name =
                                 IF msg.f["text"].t = "string" THEN msg.f["text"].s ELSE ""]
                  /\ sent' = broadcastState(players, player', coins, readyState)
                  /\ pending' = FALSE
                  /\ UNCHANGED <<coins, crashed, collects>>
        ELSE /\ sent' = <<>>
             /\ UNCHANGED <<player, coins, crashed, collects, pending>>
  /\ inbox' = Receive(inbox, sent')
  /\ shown' = LastShown(shown, sent')
  /\ UNCHANGED <<nextId, players, readyState, assigned>>
\* ws.on('message') of connection c on the frame raw.  ws emits 'message'
\* while the socket is OPEN or CLOSING (frames received before the close),
\* never after it has emitted 'close'.
OnMessage(c, raw) ==
  /\ ~crashed
  /\ readyState[c] \in {"OPEN", "CLOSING"}
  /\ LET msg == JSONparse(raw)
         p == player[c]
     IN IF Dropped(msg)
        THEN /\ sent' = <<>>
             /\ UNCHANGED <<player, coins, crashed, collects, pending>>
        ELSE IF IsType(msg, "join")
        THEN /\ player' = [player EXCEPT ![c] = Join(p, msg)]
             /\ sent' = broadcastState(players, player', coins, readyState)
             /\ pending' = FALSE
             /\ UNCHANGED <<coins, crashed, collects>>
        ELSE IF IsType(msg, "update")
        THEN /\ player' = [player EXCEPT ![c] = Update(p, msg)]
             /\ sent' = <<>>
             /\ pending' = TRUE
             /\ UNCHANGED <<coins, crashed, collects>>
        ELSE IF IsType(msg, "collect")
        THEN LET i == FindCoin(coins, msg.f["coinId"])
             IN IF CanCollect(coins, i, p)
                THEN /\ coins' = [coins EXCEPT ![i].taken = TRUE]
                     /\ collects' = [collects EXCEPT ![i] = @ + 1]
                     /\ sent' = broadcastState(players, player, coins', readyState)
                     /\ pending' = FALSE
                     /\ UNCHANGED <<player, crashed>>
                ELSE /\ sent' = <<>>
                     /\ UNCHANGED <<player, coins, crashed, collects, pending>>
        ELSE IF IsType(msg, "signal")
        THEN /\ sent' = Signal(players, player, readyState, p, msg)
             /\ UNCHANGED <<player, coins, crashed, collects, pending>>
        ELSE IF IsType(msg, "chat")
        THEN IF ChatThrows(msg)
             THEN /\ crashed' = TRUE
                  /\ sent' = <<>>
                  /\ UNCHANGED <<player, coins, collects, pending>>
             ELSE /\ sent' = broadcastState(players, player, coins, readyState)
                  /\ pending' = FALSE
                  /\ UNCHANGED <<player, coins, crashed, collects>>
        ELSE /\ sent' = <<>>
             /\ UNCHANGED <<player, coins, crashed, collects, pending>>
  /\ inbox' = Receive(inbox, sent')
  /\ shown' = LastShown(shown, sent')
  /\ UNCHANGED <<nextId, players, readyState, assigned>>

\* ------------------------------------------------------------------ close
\* The transport starts closing the socket (close frame or socket end): it
\* stops being writable before the 'close' event is delivered.
BeginClose(c) ==
  /\ ~crashed
  /\ readyState[c] = "OPEN"
  /\ readyState' = [readyState EXCEPT ![c] = "CLOSING"]
  /\ sent' = <<>>
  /\ UNCHANGED <<nextId, players, player, coins, crashed, collects, assigned, inbox, shown,
                 pending>>

\* Variant: broadcastState() is called before players.delete(id).
OnCloseBroadcastFirst(c) ==
  /\ ~crashed
  /\ readyState[c] = "CLOSING"
  /\ LET m == MapDelete(players, player[c].id)
         rs == [readyState EXCEPT ![c] = "CLOSED"]
     IN /\ players' = m
        /\ player' = [player EXCEPT ![c] = NoPlayer]
        /\ readyState' = rs
        /\ sent' = broadcastState(players, player, coins, rs)
  /\ inbox' = Receive(inbox, sent')
  /\ shown' = LastShown(shown, sent')
  /\ pending' = FALSE
  /\ UNCHANGED <<nextId, coins, crashed, collects, assigned>>
\* Variant: the coins are spawned again when the last player leaves.
OnCloseRespawn(c) ==
  /\ ~crashed
  /\ readyState[c] = "CLOSING"
  /\ LET m == MapDelete(players, player[c].id)
         rs == [readyState EXCEPT ![c] = "CLOSED"]
         cs == IF m = <<>> THEN spawnCoins ELSE coins
     IN /\ players' = m
        /\ player' = [player EXCEPT ![c] = NoPlayer]
        /\ readyState' = rs
        /\ coins' = cs
        /\ sent' = broadcastState(m, player, cs, rs)
  /\ inbox' = Receive(inbox, sent')
  /\ shown' = LastShown(shown, sent')
  /\ pending' = FALSE
  /\ UNCHANGED <<nextId, crashed, collects, assigned>>
\* ws.on('close'): the closure of a closed connection is never entered again,
\* so its player object is dropped.
OnClose(c) ==
  /\ ~crashed
  /\ readyState[c] = "CLOSING"
  /\ LET m == MapDelete(players, player[c].id)
         objs == [player EXCEPT ![c] = NoPlayer]
         rs == [readyState EXCEPT ![c] = "CLOSED"]
     IN /\ players' = m
        /\ player' = objs
        /\ readyState' = rs
        /\ sent' = broadcastState(m, player, coins, rs)
  /\ inbox' = Receive(inbox, sent')
  /\ shown' = LastShown(shown, sent')
  /\ pending' = FALSE
  /\ UNCHANGED <<nextId, coins, crashed, collects, assigned>>

\* ------------------------------------------------------------------ timer
\* Variant: the timer sends a payload whose coin list was built at start-up.
TickSeeded ==
  /\ ~crashed
  /\ sent' = SendAll(players, player, readyState, StatePayload(players, player, spawnCoins))
  /\ inbox' = Receive(inbox, sent')
  /\ shown' = LastShown(shown, sent')
  /\ pending' = FALSE
  /\ UNCHANGED <<nextId, players, player, coins, readyState, crashed, collects, assigned>>
\* setInterval(broadcastState, 50)
Tick ==
  /\ ~crashed
  /\ sent' = broadcastState(players, player, coins, readyState)
  /\ inbox' = Receive(inbox, sent')
  /\ shown' = LastShown(shown, sent')
  /\ pending' = FALSE
  /\ UNCHANGED <<nextId, players, player, coins, readyState, crashed, collects, assigned>>

\* ----------------------------------------------------------------- inputs
\* Inbound frames are drawn from small sets.  Each specification below runs
\* every handler and varies the fields its claims are about; the fields it
\* holds fixed are independent of them in the code.
JoinFrames(names, xs, ys) ==
  {Obj([NoFields EXCEPT !["type"] = Str("join"), !["name"] = n, !["x"] = x, !["y"] = y]) :
     n \in names, x \in xs, y \in ys}

UpdateFrames(xs, ys, rs) ==
  {Obj([NoFields EXCEPT !["type"] = Str("update"), !["x"] = x, !["y"] = y,
                         !["bubbleRadius"] = r]) :
     x \in xs, y \in ys, r \in rs}

\* collect frames; xs and ys are coordinates a client may add to the frame
CollectFrames(ids, xs, ys) ==
  {Obj([NoFields EXCEPT !["type"] = Str("collect"), !["coinId"] = k, !["x"] = x, !["y"] = y]) :
     k \in ids, x \in xs, y \in ys}

SignalFrames(tos, datas) ==
  {Obj([NoFields EXCEPT !["type"] = Str("signal"), !["to"] = t, !["data"] = d]) :
     t \in tos, d \in datas}

ChatFrames(texts) ==
  {Obj([NoFields EXCEPT !["type"] = Str("chat"), !["text"] = t]) : t \in texts}

\* Frames that do not parse, have no type, or have a type no branch handles.
JunkFrames ==
  {BadFrame, NullFrame, ScalarFrame, Obj(NoFields),
   Obj([NoFields EXCEPT !["type"] = Str(""), !["coinId"] = Str("c1")]),
   Obj([NoFields EXCEPT !["type"] = Null, !["x"] = Num(5)]),
   Obj([NoFields EXCEPT !["type"] = Num(7), !["x"] = Num(5)]),
   Obj([NoFields EXCEPT !["type"] = Str("chatter"), !["x"] = Num(5), !["coinId"] = Str("c1")])}

PlayerIds == {Str(NewId(n)) : n \in 1..MaxConns}

\* Spec: connection life cycle, movement, collecting, relaying, chat.
MoveFrames ==
  JoinFrames({Absent}, {Absent, Num(5000)}, {Absent})
  \cup UpdateFrames({Absent, Num(-5)}, {Absent}, {Absent, Num(DefaultRadius)})

Frames ==
  MoveFrames
  \cup CollectFrames({Str("c0"), Str("c1"), Str("c2"), Str("c20")}, {Absent}, {Absent})
  \cup SignalFrames({Str("p1")}, {Str("sdp")})
  \cup ChatFrames({Str("hi"), Object(1)})
  \cup {BadFrame, Obj([NoFields EXCEPT !["type"] = Str("chatter")])}

\* SpecCollect: collect frames of every kind, from players at the centre and
\* players that moved onto coin c0.  From (812, 466) c0 lies at squared
\* distance 0, c1 at 400 and c2 at 305; c3 is far from both positions.
CollectInputs ==
  CollectFrames({Absent, Str("c0"), Str("c1"), Str("c2"), Str("c3"), Str("c20")}, {Absent}, {Absent})
  \cup CollectFrames({Str("c0"), Num(0)}, {Num(812)}, {Num(466)})

CollectSpecFrames ==
  CollectInputs
  \cup UpdateFrames({Num(812)}, {Num(466)}, {Absent})
  \cup ChatFrames({Str("hi")})

\* SpecJunk: frames the handler drops or ignores, among frames it handles.
JunkSpecFrames ==
  JunkFrames
  \cup JoinFrames({Absent}, {Num(5000)}, {Absent})
  \cup UpdateFrames({Num(-5)}, {Absent}, {Absent})
  \cup CollectFrames({Str("c1")}, {Absent}, {Absent})
  \cup ChatFrames({Str("hi")})

\* SpecUpdate: connections that send update frames only.
UpdateInputs ==
  UpdateFrames({Absent, Str("9"), Num(-5), Num(5000)},
               {Absent, Num(-5), Overflow(1)},
               {Absent, Num(DefaultRadius)})

\* SpecRadius: every kind of frame, the radius varied.
RadiusInputs ==
  UpdateFrames({Absent}, {Absent},
               {Absent, Str("big"), Num(10), Num(9999), Overflow(1), Overflow(-1)})
  \cup JoinFrames({Absent}, {Absent}, {Absent})
  \cup CollectFrames({Str("c1")}, {Absent}, {Absent})
  \cup SignalFrames({Str("p1")}, {Str("sdp")})
  \cup ChatFrames({Str("hi")})
  \cup {BadFrame}

\* SpecSignal: signal frames to every id, with every kind of data.
SignalInputs ==
  SignalFrames(PlayerIds \cup {Absent, Num(1), Str("p9")},
               {Absent, Str("sdp"), Num(7), Overflow(1)})

SignalSpecFrames ==
  SignalInputs
  \cup JoinFrames({Absent}, {Num(5000)}, {Absent})
  \cup CollectFrames({Str("c1")}, {Absent}, {Absent})
  \cup ChatFrames({Str("hi")})

\* SpecBroadcast: every handler that broadcasts, with positions and radii
\* that are out of range or too large for a double.
BroadcastSpecFrames ==
  JoinFrames({Absent}, {Num(5000), Overflow(1)}, {Absent})
  \cup UpdateFrames({Num(-5)}, {Absent}, {Overflow(1)})
  \cup CollectFrames({Str("c1")}, {Absent}, {Absent})
  \cup SignalFrames({Str("p1")}, {Str("sdp")})
  \cup ChatFrames({Str("hi")})

\* SpecAtomic: updates that carry x, y and bubbleRadius and joins that carry
\* name, x and y, between broadcasts.
FullUpdates ==
  UpdateFrames({Num(-5)}, {Num(5000)}, {Num(9999)})
  \cup UpdateFrames({Num(700)}, {Num(300)}, {Num(50)})

FullJoins == JoinFrames({Str("Ada")}, {Num(5000)}, {Num(-7)})

\* SpecLive: updates between timer ticks, among chat frames (one whose text
\* cannot be converted to a string), malformed frames, connects and closes.
LiveFrames ==
  UpdateFrames({Num(800)}, {Num(450)}, {Num(9999)})
  \cup UpdateFrames({Num(-5)}, {Absent}, {Absent})
  \cup ChatFrames({Str("hi"), Object(1)})
  \cup {BadFrame}

\* SpecFields: joins and updates whose fields are absent, of the wrong type
\* or valid, in the same frame; LongName has 40 characters.
LongName == "0123456789012345678901234567890123456789"

FieldInputs ==
  UpdateFrames({Str("9")}, {Num(5000)}, {Null})
  \cup UpdateFrames({Num(-5)}, {Str("1")}, {Absent})
  \cup JoinFrames({Num(7)}, {Str("1")}, {Null})
  \cup JoinFrames({Str(LongName)}, {Absent}, {Num(-7)})

\* ------------------------------------------------------------------- Next
Next ==
  \/ \E c \in Conns : OnConnection(c)
  \/ \E c \in Conns : \E raw \in Frames : OnMessage(c, raw)
  \/ \E c \in Conns : BeginClose(c)
  \/ \E c \in Conns : OnClose(c)
  \/ Tick

Spec == Init /\ [][Next]_vars

NextUpdate ==
  \/ \E c \in Conns : OnConnection(c)
  \/ \E c \in Conns : \E raw \in UpdateInputs : OnMessage(c, raw)
  \/ \E c \in Conns : BeginClose(c)
  \/ \E c \in Conns : OnClose(c)
  \/ Tick

SpecUpdate == Init /\ [][NextUpdate]_vars

NextRadius ==
  \/ \E c \in Conns : OnConnection(c)
  \/ \E c \in Conns : \E raw \in RadiusInputs : OnMessage(c, raw)
  \/ \E c \in Conns : BeginClose(c)
  \/ \E c \in Conns : OnClose(c)
  \/ Tick

SpecRadius == Init /\ [][NextRadius]_vars

NextSignal ==
  \/ \E c \in Conns : OnConnection(c)
  \/ \E c \in Conns : \E raw \in SignalSpecFrames : OnMessage(c, raw)
  \/ \E c \in Conns : BeginClose(c)
  \/ \E c \in Conns : OnClose(c)
  \/ Tick

SpecSignal == Init /\ [][NextSignal]_vars

NextCollect ==
  \/ \E c \in Conns : OnConnection(c)
  \/ \E c \in Conns : \E raw \in CollectSpecFrames : OnMessage(c, raw)
  \/ \E c \in Conns : BeginClose(c)
  \/ \E c \in Conns : OnClose(c)
  \/ Tick

SpecCollect == Init /\ [][NextCollect]_vars

NextJunk ==
  \/ \E c \in Conns : OnConnection(c)
  \/ \E c \in Conns : \E raw \in JunkSpecFrames : OnMessage(c, raw)
  \/ \E c \in Conns : BeginClose(c)
  \/ \E c \in Conns : OnClose(c)
  \/ Tick

SpecJunk == Init /\ [][NextJunk]_vars

NextBroadcast ==
  \/ \E c \in Conns : OnConnection(c)
  \/ \E c \in Conns : \E raw \in BroadcastSpecFrames : OnMessage(c, raw)
  \/ \E c \in Conns : BeginClose(c)
  \/ \E c \in Conns : OnClose(c)
  \/ Tick

SpecBroadcast == Init /\ [][NextBroadcast]_vars

NextAtomic ==
  \/ \E c \in Conns : OnConnection(c)
  \/ \E c \in Conns : \E raw \in FullUpdates \cup FullJoins : OnMessage(c, raw)
  \/ \E c \in Conns : BeginClose(c)
  \/ \E c \in Conns : OnClose(c)
  \/ Tick

SpecAtomic == Init /\ [][NextAtomic]_vars

NextFields ==
  \/ \E c \in Conns : OnConnection(c)
  \/ \E c \in Conns : \E raw \in FieldInputs : OnMessage(c, raw)
  \/ \E c \in Conns : BeginClose(c)
  \/ \E c \in Conns : OnClose(c)
  \/ Tick

SpecFields == Init /\ [][NextFields]_vars

NextLive ==
  \/ \E c \in Conns : OnConnection(c)
  \/ \E c \in Conns : \E raw \in LiveFrames : OnMessage(c, raw)
  \/ \E c \in Conns : BeginClose(c)
  \/ \E c \in Conns : OnClose(c)
  \/ Tick

\* The timer is never cancelled: while the process runs, a due tick runs.
SpecLive == Init /\ [][NextLive]_vars /\ WF_vars(Tick)

\* SpecLive without the chat frame whose text cannot be converted.
NextLiveUnlessThrown ==
  \/ \E c \in Conns : OnConnection(c)
  \/ \E c \in Conns : \E raw \in LiveFrames \ ChatFrames({Object(1)}) : OnMessage(c, raw)
  \/ \E c \in Conns : BeginClose(c)
  \/ \E c \in Conns : OnClose(c)
  \/ Tick

SpecLiveUnlessThrown == Init /\ [][NextLiveUnlessThrown]_vars /\ WF_vars(Tick)

\* ================================================================== claims
\* Connections whose socket was accepted and whose 'close' has not been handled.
Live == {c \in Conns : readyState[c] \in {"OPEN", "CLOSING"}}

\* Everything the process holds, apart from the frames just written.
world == <<nextId, players, player, coins, readyState, crashed>>

InWorld(p) == 0 <= p.x /\ p.x <= 1600 /\ 0 <= p.y /\ p.y <= 900

\* C1: for every coin, in every execution, at most one collect message ever
\* succeeds (sets taken and emits the broadcast); a collect for a coin that
\* is already taken changes nothing and writes no frame.
CollectAtMostOnce ==
  /\ [](\A i \in CoinIdx : collects[i] <= 1 /\ (coins[i].taken <=> collects[i] = 1))
  /\ [][\A c \in Conns : \A raw \in CollectInputs :
          \/ ~(\E i \in CoinIdx : coins[i].taken /\ raw.f["coinId"] = Str(coins[i].id))
          \/ UNCHANGED <<world, collects>> /\ sent' = <<>>
          \/ ~OnMessage(c, raw)]_vars

\* C1 witness: coins c1 and c2 are both taken, each with two connected
\* players standing on it or within reach.
CollectAtMostOnceWitness ==
  /\ collects[1] = 1 /\ collects[2] = 1
  /\ \E c, d \in Live : c # d /\ DistSq(coins[2], player[c]) < 400 /\ DistSq(coins[2], player[d]) < 400

\* Coin i has the id the frame names, is not taken, and lies at a squared
\* distance below 400 from the position the server holds for connection c.
Hit(i, c, raw) ==
  /\ raw.f["coinId"].t = "string"
  /\ coins[i].id = raw.f["coinId"].s
  /\ ~coins[i].taken
  /\ (coins[i].x - player[c].x) * (coins[i].x - player[c].x)
     + (coins[i].y - player[c].y) * (coins[i].y - player[c].y) < 400

\* C2: a collect from player P sets the coin's taken flag iff a coin with that
\* id exists, is not taken, and its squared distance to P's server-held
\* position is strictly below 400 (exactly 400 fails; coordinates in the
\* frame are not used); when it fails nothing changes.
CollectIffNear ==
  [][\A c \in Conns : \A raw \in CollectInputs :
       \/ /\ \A i \in CoinIdx : (coins'[i].taken /\ ~coins[i].taken) <=> Hit(i, c, raw)
          /\ (\A i \in CoinIdx : ~Hit(i, c, raw)) => (UNCHANGED world /\ sent' = <<>>)
       \/ ~OnMessage(c, raw)]_vars

\* C2 witness: c0 and c2 were collected, c1 was not, and both connected
\* players stand at squared distance exactly 400 from c1.
CollectIffNearWitness ==
  /\ coins[2].taken /\ coins[0].taken /\ ~coins[1].taken
  /\ Cardinality(Live) = 2
  /\ \A c \in Live : DistSq(coins[1], player[c]) = 400

\* C3: once a coin's taken flag is true it stays true, and no step re-seeds
\* the coin list (ids and positions never change).
TakenIsStable ==
  [][\A i \in CoinIdx :
       /\ coins[i].taken => coins'[i].taken
       /\ coins'[i].id = coins[i].id /\ coins'[i].x = coins[i].x /\ coins'[i].y = coins[i].y]_vars

\* C3 witness: a coin is still taken after every connection has closed.
TakenIsStableWitness ==
  /\ coins[1].taken
  /\ \A c \in Conns : readyState[c] = "CLOSED"

\* C4: in every reachable state every player's bubbleRadius is in [30, 400].
RadiusInRange ==
  /\ \A c \in Live : 30 <= player[c].bubbleRadius /\ player[c].bubbleRadius <= 400
  /\ \A i \in 1..Len(players) :
       30 <= player[players[i].ref].bubbleRadius /\ player[players[i].ref].bubbleRadius <= 400

\* C4 witness: one player was clamped to 400 and another to 30.
RadiusInRangeWitness ==
  \E c, d \in Live : player[c].bubbleRadius = 400 /\ player[d].bubbleRadius = 30

\* C5: a player created with the default position whose connection sends
\* only update frames has 0 <= x <= 1600 and 0 <= y <= 900 after every frame
\* (checked under SpecUpdate, where connections send update frames only).
UpdateOnlyInBounds ==
  /\ \A c \in Live : InWorld(player[c])
  /\ \A i \in 1..Len(players) : InWorld(player[players[i].ref])

\* C5 witness: updates with out-of-range values left one player on the
\* corner (1600, 900) and another on (0, 0).
UpdateOnlyInBoundsWitness ==
  \E c, d \in Live :
    /\ player[c].x = 1600 /\ player[c].y = 900
    /\ player[d].x = 0 /\ player[d].y = 0

\* C6: for every message history of a connection, in the state right after
\* an update frame has been processed the player's x is in [0, 1600] and y
\* in [0, 900], also when the update carries only some fields.
AfterUpdateInBounds ==
  [][\A c \in Conns : \A raw \in UpdateFrames({Absent, Num(-5)}, {Absent}, {Absent, Num(DefaultRadius)}) :
       InWorld(player'[c]) \/ ~OnMessage(c, raw)]_vars

\* C7: the player entries and the connections opened and not yet closed are
\* in one-to-one correspondence, each entry holding its connection's socket.
PlayersMatchConnections ==
  /\ Len(players) = Cardinality(Live)
  /\ \A c \in Live : Cardinality({i \in 1..Len(players) : player[players[i].ref].ws = c}) = 1
  /\ \A i \in 1..Len(players) : players[i].ref \in Live /\ player[players[i].ref].id = players[i].id
  /\ \A i, j \in 1..Len(players) : i # j => players[i].id # players[j].id
  /\ (\A c \in Conns : readyState[c] = "CLOSED") => players = <<>>

\* C7 witness: two connections are open at once, with two entries.
PlayersMatchConnectionsWitness ==
  /\ Cardinality(Live) = 2
  /\ Len(players) = 2

\* C8: the id given to a new connection differs from every id given out
\* before, also to players that have left, and the counter values given out
\* increase strictly in connect order.
IdsNeverReused ==
  \A i, j \in 1..Len(assigned) :
    i < j => assigned[i].n < assigned[j].n /\ assigned[i].id # assigned[j].id

\* C8 witness: a second connection got its id after the first one had closed.
IdsNeverReusedWitness ==
  /\ Len(assigned) = 2
  /\ readyState[1] = "CLOSED"
  /\ readyState[2] = "OPEN"

\* What the relay does with data: it forwards JSON.stringify of the parsed
\* value, which is the value sent except for a number too large for a double.
SignalRelaysReserialized ==
  [][\A c \in Conns : \A raw \in SignalInputs :
       \/ LET to == raw.f["to"]
              dst == {d \in Live : to.t = "string" /\ player[d].id = to.s /\ readyState[d] = "OPEN"}
          IN /\ UNCHANGED world
             /\ \A d \in dst :
                  sent' = <<[to |-> d,
                             frame |-> [type |-> "signal", from |-> player[c].id,
                                        data |-> IF raw.f["data"].t = "overflow" THEN Null
                                                 ELSE raw.f["data"]]]>>
             /\ dst = {} => sent' = <<>>
       \/ ~OnMessage(c, raw)]_vars

\* C9: a signal {to, data} from S writes exactly one frame {signal, from S,
\* the same data} to the socket of `to` iff `to` is a registered player with
\* a writable socket, and otherwise writes nothing; the world never changes.
SignalRelaysData ==
  [][\A c \in Conns : \A raw \in SignalInputs : OnMessage(c, raw) =>
       LET to == raw.f["to"]
           dst == {d \in Live : to.t = "string" /\ player[d].id = to.s /\ readyState[d] = "OPEN"}
       IN /\ UNCHANGED world
          /\ \A d \in dst :
               sent' = <<[to |-> d,
                          frame |-> [type |-> "signal", from |-> player[c].id,
                                     data |-> raw.f["data"]]]>>
          /\ dst = {} => sent' = <<>>]_vars

\* C10: a frame that does not parse, has no type, or has a type other than
\* join, update, collect, signal, chat changes no player and no coin, writes
\* no frame, and leaves the process running.
JunkIsIgnored ==
  [][\A c \in Conns : \A raw \in JunkFrames :
       \/ UNCHANGED world /\ sent' = <<>> /\ ~crashed'
       \/ ~OnMessage(c, raw)]_vars

\* C10 witness: with players registered, a coin taken and a player moved, the
\* last handler wrote no frame.
JunkIsIgnoredWitness ==
  /\ Cardinality(Live) = 2
  /\ coins[1].taken
  /\ \E c \in Live : player[c].x = 5000
  /\ \E c \in Live : readyState[c] = "OPEN"
  /\ sent = <<>>
  /\ ~crashed

\* ------------------------------------------------------------ broadcasts
\* The state frames among the frames a handler wrote.
StateFrames(frames) == SelectSeq(frames, LAMBDA m : m.frame.type = "state")

\* The registered connections whose socket is writable, in Map order.
Audience(m, rs) == SelectSeq([i \in 1..Len(m) |-> m[i].ref], LAMBDA d : rs[d] = "OPEN")

\* The handler ran the broadcaster once: one state frame per writable
\* registered connection.
Broadcasts(frames, m, rs) ==
  [k \in 1..Len(StateFrames(frames)) |-> StateFrames(frames)[k].to] = Audience(m, rs)

NoBroadcast(frames) == StateFrames(frames) = <<>>

\* What C11 says of a step that handles raw on connection c.
BroadcastRule(c, raw) ==
  LET kind == raw.f["type"]
  IN IF raw.syntax = "bad" \/ raw.top # "object" THEN TRUE
     ELSE IF kind \in {Str("join"), Str("chat")}
     THEN Broadcasts(sent', players', readyState') /\ ~crashed'
     ELSE IF kind = Str("collect")
     THEN IF \E i \in CoinIdx : Hit(i, c, raw)
          THEN Broadcasts(sent', players', readyState')
          ELSE NoBroadcast(sent') /\ UNCHANGED world
     ELSE IF kind \in {Str("update"), Str("signal")}
     THEN NoBroadcast(sent')
     ELSE TRUE

\* What holds of the code: the rule of C11 for every frame whose chat text
\* converts to a string.
BroadcastRuleUnlessThrown ==
  [][\A c \in Conns : \A raw \in Frames \ ChatFrames({Object(1)}) :
       BroadcastRule(c, raw) \/ ~OnMessage(c, raw)]_vars

\* C11: handling a message runs the broadcaster exactly for every join, every
\* chat and every collect that succeeds; update, signal and a failed collect
\* write no state frame, and a failed collect changes nothing.
BroadcastExactlyOnJoinChatCollect ==
  [][\A c \in Conns : \A raw \in Frames :
       BroadcastRule(c, raw) \/ ~OnMessage(c, raw)]_vars

\* ---------------------------------------------------------------- welcome
\* C12: every accepted connection is sent exactly one welcome frame, and it
\* is the first frame it is sent; the welcome carries the assigned id, the
\* world {1600, 900, 780} and the 20 coins with their taken flags at connect
\* time; the connect handler then broadcasts a state whose players list has
\* the new player, to every writable registered connection.
WelcomeOnceAndFirst ==
  /\ [](\A c \in Conns :
          IF readyState[c] = "CONNECTING" THEN inbox[c].first = "" /\ inbox[c].welcomes = 0
          ELSE inbox[c].first = "welcome" /\ inbox[c].welcomes = 1)
  /\ [][\A c \in Conns : (readyState[c] = "CONNECTING" /\ readyState'[c] # "CONNECTING") =>
          /\ Len(sent') >= 2
          /\ sent'[1].to = c
          /\ sent'[1].frame.type = "welcome"
          /\ sent'[1].frame.id = player'[c].id
          /\ sent'[1].frame.id = "p" \o ToString(nextId)
          /\ sent'[1].frame.world = [w |-> 1600, h |-> 900, groundY |-> 780]
          /\ DOMAIN sent'[1].frame.coins = 0..19
          /\ \A i \in 0..19 : sent'[1].frame.coins[i] = coins[i]
          /\ \A k \in 2..Len(sent') :
               /\ sent'[k].frame.type = "state"
               /\ \E j \in 1..Len(sent'[k].frame.players) :
                    sent'[k].frame.players[j].id = player'[c].id
          /\ \A d \in Conns :
               Cardinality({k \in 2..Len(sent') : sent'[k].to = d})
                 = IF readyState'[d] = "OPEN" THEN 1 ELSE 0]_vars

\* C12 witness: the second connection has just been accepted while the first
\* is writable and coin c1 is taken: the welcome shows c1 taken and the first
\* connection gets the state frame.
WelcomeOnceAndFirstWitness ==
  /\ Len(sent) = 3
  /\ sent[1].to = 2 /\ sent[1].frame.type = "welcome" /\ sent[1].frame.coins[1].taken
  /\ \E k \in 2..3 : sent[k].to = 1 /\ sent[k].frame.type = "state"
  /\ inbox[1].welcomes = 1 /\ inbox[2].welcomes = 1

\* ------------------------------------------------------------------ close
\* C13: the step that handles a connection's close removes its player entry
\* and broadcasts a state whose players list lacks the departed id; no frame
\* of any type is sent to a closed connection from then on; every other
\* player's record and registration is unchanged and every other writable
\* registered connection is in the audience of that and each later broadcast.
CloseRemovesAndBroadcasts ==
  [][/\ \A c \in Conns : (readyState[c] = "CLOSING" /\ readyState'[c] = "CLOSED") =>
          /\ \A i \in 1..Len(players') : players'[i].id # player[c].id
          /\ \A k \in 1..Len(sent') :
               /\ sent'[k].frame.type = "state"
               /\ \A j \in 1..Len(sent'[k].frame.players) :
                    sent'[k].frame.players[j].id # player[c].id
          /\ Broadcasts(sent', players', readyState')
          /\ \A d \in Conns \ {c} :
               /\ player'[d] = player[d]
               /\ readyState'[d] = readyState[d]
               /\ (\E i \in 1..Len(players) : players[i].ref = d)
                    => (\E i \in 1..Len(players') : players'[i].ref = d)
     /\ \A c \in Conns : readyState[c] = "CLOSED" => readyState'[c] = "CLOSED"
     /\ \A k \in 1..Len(sent') : readyState'[sent'[k].to] # "CLOSED"
     /\ NoBroadcast(sent') \/ Broadcasts(sent', players', readyState')]_vars

\* C13 witness: the first connection has just closed; the second, whose
\* player had moved, is still registered at the same place and was sent the
\* state frame, which lists one player.
CloseRemovesAndBroadcastsWitness ==
  /\ readyState = <<"CLOSED", "OPEN">>
  /\ player[2].x = 5000
  /\ Len(players) = 1
  /\ Len(sent) = 1 /\ sent[1].to = 2 /\ sent[1].frame.type = "state"
  /\ Len(sent[1].frame.players) = 1
  /\ inbox[1].welcomes = 1

\* ------------------------------------------------------------ the payload
\* A number of the world as a frame carries it: itself, or (lossy) null when
\* it is not finite, which is how JSON.stringify writes it.
Wire(k, lossy) == IF lossy /\ (k <= -Huge \/ k >= Huge) THEN Null ELSE Num(k)

\* Every state frame a step writes lists the registered players in Map order
\* and the coins.
PayloadShows(lossy) ==
  \A k \in 1..Len(StateFrames(sent')) :
    LET frame == StateFrames(sent')[k].frame
    IN /\ Len(frame.players) = Len(players')
       /\ \A j \in 1..Len(players') :
            LET p == player'[players'[j].ref]
            IN /\ frame.players[j].id = players'[j].id
               /\ frame.players[j].id = p.id
               /\ frame.players[j].name = p.name
               /\ frame.players[j].x = Wire(p.x, lossy)
               /\ frame.players[j].y = Wire(p.y, lossy)
               /\ frame.players[j].bubbleRadius = Wire(p.bubbleRadius, lossy)
       /\ DOMAIN frame.coins = 0..19
       /\ \A i \in 0..19 : frame.coins[i] = coins'[i]

\* One payload per step, the same for every recipient; the recipients are the
\* writable registered connections, each once.
SamePayloadToWritable ==
  /\ \A k, l \in 1..Len(StateFrames(sent')) :
       StateFrames(sent')[k].frame = StateFrames(sent')[l].frame
  /\ NoBroadcast(sent') \/ Broadcasts(sent', players', readyState')
  /\ \A k \in 1..Len(sent') : readyState'[sent'[k].to] = "OPEN"

\* What holds of the code: the payload is the world state as JSON.stringify
\* writes it, a coordinate that is not finite appearing as null.
PayloadIsSerializedWorld ==
  [][SamePayloadToWritable /\ PayloadShows(TRUE)]_vars

\* C14: each run of the broadcaster builds one payload equal to the world
\* state at that instant (every registered player's id, name, x, y,
\* bubbleRadius, every coin's id, x, y, taken) and sends that same payload
\* to every writable registered connection and to no other.
PayloadEqualsWorld ==
  [][SamePayloadToWritable /\ PayloadShows(FALSE)]_vars

\* ------------------------------------------------------------- atomicity
\* The fields of a player record a state frame carries.
Shown(p) ==
  [id |-> p.id, name |-> p.name, x |-> Num(p.x), y |-> Num(p.y),
   bubbleRadius |-> Num(p.bubbleRadius)]

\* k limited to [lo, hi].
Limit(lo, hi, k) == IF k < lo THEN lo ELSE IF k > hi THEN hi ELSE k

\* C15: no broadcast payload shows a player record with some fields from
\* before and others from after one update or join.  A handler runs to its
\* end before the timer or another handler runs: an update with x, y and
\* bubbleRadius sets all three clamped values in one step that writes no
\* frame, a join sets name, x and y in one step, and every state frame shows
\* each record whole, as it was before the step or as it is after it.
NoTornRecord ==
  [][/\ \A c \in Conns : \A raw \in FullUpdates :
          \/ /\ player'[c] = [player[c] EXCEPT
                                !.x = Limit(0, 1600, raw.f["x"].n),
                                !.y = Limit(0, 900, raw.f["y"].n),
                                !.bubbleRadius = Limit(30, 400, raw.f["bubbleRadius"].n)]
             /\ sent' = <<>>
          \/ ~OnMessage(c, raw)
     /\ \A c \in Conns : \A raw \in FullJoins :
          \/ player'[c] = [player[c] EXCEPT
                             !.name = raw.f["name"].s, !.x = raw.f["x"].n, !.y = raw.f["y"].n]
          \/ ~OnMessage(c, raw)
     /\ \A k \in 1..Len(StateFrames(sent')) :
          LET frame == StateFrames(sent')[k].frame
          IN \A j \in 1..Len(frame.players) :
               \E d \in Conns :
                 /\ player'[d].id = frame.players[j].id
                 /\ frame.players[j] \in {Shown(player[d]), Shown(player'[d])}]_vars

\* C15 witness: both connections are writable and each was just sent a state
\* frame that shows the first player with all three clamped values of its
\* update and the second with the name and position of its join.
NoTornRecordWitness ==
  /\ Len(sent) = 2
  /\ sent[1].frame.type = "state" /\ sent[2].frame.type = "state"
  /\ sent[1].frame.players[1]
       = [id |-> "p1", name |-> "Pilotp1", x |-> Num(0), y |-> Num(900), bubbleRadius |-> Num(400)]
  /\ sent[1].frame.players[2]
       = [id |-> "p2", name |-> "Ada", x |-> Num(5000), y |-> Num(-7), bubbleRadius |-> Num(50)]

\* --------------------------------------------------------------- ordering
\* C16: state payloads never roll back.  Every state frame a step writes
\* marks as taken exactly the coins taken at that step's end, and these
\* include every coin the last state frame written before (to any
\* connection, hence also to the same one) marked as taken: a coin shown
\* taken is never shown untaken later.
PayloadsNeverRollBack ==
  [][\A k \in 1..Len(sent') : sent'[k].frame.type = "state" =>
       /\ {i \in 0..19 : sent'[k].frame.coins[i].taken} = {i \in 0..19 : coins'[i].taken}
       /\ shown \subseteq {i \in 0..19 : sent'[k].frame.coins[i].taken}
       /\ \A i \in shown : sent'[k].frame.coins[i].taken]_vars

\* C16 witness: two writable connections were just sent a state frame that
\* shows c1 and c2 taken, after frames that showed fewer coins taken.
PayloadsNeverRollBackWitness ==
  /\ Len(sent) = 2
  /\ sent[1].to # sent[2].to
  /\ sent[1].frame.type = "state" /\ sent[2].frame.type = "state"
  /\ {i \in 0..19 : sent[2].frame.coins[i].taken} = {1, 2}
  /\ shown = {1, 2}
  /\ collects[1] = 1 /\ collects[2] = 1

\* ----------------------------------------------------------------- timer
\* C17: the timer keeps firing for the whole execution, whatever connects,
\* closes or arrives, so every update applied is eventually followed by a
\* run of the broadcaster; the first one after the update goes to every
\* writable registered connection and shows the clamped values.
UpdateIsEventuallyBroadcast ==
  /\ [](~crashed)
  /\ pending ~> ~pending
  /\ [][(pending /\ ~pending') =>
          /\ Broadcasts(sent', players', readyState')
          /\ PayloadShows(FALSE)
          /\ \A k \in 1..Len(StateFrames(sent')) :
               \A j \in 1..Len(StateFrames(sent')[k].frame.players) :
                 LET shownP == StateFrames(sent')[k].frame.players[j]
                 IN /\ 0 <= shownP.x.n /\ shownP.x.n <= 1600
                    /\ 0 <= shownP.y.n /\ shownP.y.n <= 900
                    /\ 30 <= shownP.bubbleRadius.n /\ shownP.bubbleRadius.n <= 400]_vars

\* ----------------------------------------------------------- frame effect
\* C18: handling a frame from connection c leaves the record of every other
\* player as it is, and leaves the record of c's own player as it is unless
\* the frame is a join or an update; these two change only name, x, y and
\* bubbleRadius.
OnlyOwnJoinOrUpdateMutates ==
  [][\A c \in Conns : \A raw \in Frames :
       \/ /\ \A d \in Conns \ {c} : player'[d] = player[d]
          /\ player'[c].id = player[c].id
          /\ player'[c].ws = player[c].ws
          /\ raw.f["type"] \notin {Str("join"), Str("update")} => player'[c] = player[c]
       \/ ~OnMessage(c, raw)]_vars

\* C18 witness: the first player was moved by a join and the second by an
\* update, a coin was collected, each record is otherwise as created, and
\* the last step broadcast to both.
OnlyOwnJoinOrUpdateMutatesWitness ==
  /\ player[1].x = 5000 /\ player[1].name = "Pilotp1"
  /\ player[2].x = 0 /\ player[2].name = "Pilotp2"
  /\ coins[1].taken
  /\ Len(sent) = 2

\* ----------------------------------------------------------------- fields
\* The first 32 characters of a string.
First32(str) == IF Len(str) > 32 THEN SubSeq(str, 1, 32) ELSE str

\* C19: an update sets each of x, y, bubbleRadius that is present and a
\* number (clamped) and a join each of name (a string, cut to 32 characters),
\* x, y (numbers); a field that is absent or of another type keeps the
\* player's prior value, whatever the other fields of the frame are, and
\* nothing is raised.
OnlyValidFieldsApplied ==
  [][\A c \in Conns : \A raw \in FieldInputs :
       \/ LET old == player[c]
              f == raw.f
              number(k) == f[k].t = "number"
          IN /\ ~crashed'
             /\ Len(player'[c].name) <= 32
             /\ IF f["type"] = Str("update")
                THEN player'[c] =
                       [old EXCEPT
                          !.x = IF number("x") THEN Limit(0, 1600, f["x"].n) ELSE old.x,
                          !.y = IF number("y") THEN Limit(0, 900, f["y"].n) ELSE old.y,
                          !.bubbleRadius = IF number("bubbleRadius")
                                           THEN Limit(30, 400, f["bubbleRadius"].n)
                                           ELSE old.bubbleRadius]
                ELSE player'[c] =
                       [old EXCEPT
                          !.name = IF f["name"].t = "string" THEN First32(f["name"].s)
                                   ELSE old.name,
                          !.x = IF number("x") THEN f["x"].n ELSE old.x,
                          !.y = IF number("y") THEN f["y"].n ELSE old.y]
       \/ ~OnMessage(c, raw)]_vars

\* C19 witness: one player has the 40-character name cut to 32 and the y of
\* a join whose x was absent, and the x of an update whose y was a string;
\* the other has only the y of an update whose x was a string and whose
\* bubbleRadius was null.
OnlyValidFieldsAppliedWitness ==
  \E c, d \in Live :
    /\ player[c].name = "01234567890123456789012345678901"
    /\ player[c].x = 0 /\ player[c].y = -7 /\ player[c].bubbleRadius = 120
    /\ player[d].name = "Pilot" \o player[d].id
    /\ player[d].x = 800 /\ player[d].y = 900 /\ player[d].bubbleRadius = 120

====
